---- MODULE Spec2Model ----
(***************************************************************************)
(* Model of the catalog aggregation and conflict-validation scripts:       *)
(*   scripts/validate-conflicts.py  (ConflictValidator)                    *)
(*   scripts/aggregate-kafka.py     (Aggregator)                           *)
(*                                                                         *)
(* Python dicts are functions with a finite set of string keys (the empty  *)
(* dict is << >>), Python lists are sequences, and an insertion-ordered    *)
(* dict that the code iterates over is a sequence of [k, v] items.         *)
(***************************************************************************)
EXTENDS Integers, Sequences, FiniteSets, TLC

\* ------------------------------------------------------------------ bounds
\* Longest topics / access_config / schemas list of a catalog under scrutiny.
MaxLen == 2

\* Longest topics list of one domain's declaration file.
MaxDecl == 1

\* ------------------------------------------------------- python primitives
\* The value dict.get(key) returns for a missing key without a default.
None == "None"

\* dict.get(k, default)
Get(d, k, default) == IF k \in DOMAIN d THEN d[k] ELSE default

\* All lists over S of length at most n.
Lists(S, n) == UNION {[1..k -> S] : k \in 0..n}

Range(s) == {s[i] : i \in DOMAIN s}

\* Position of key k in the ordered dict m (0 when absent).
RECURSIVE IndexOf(_, _, _)
IndexOf(m, k, i) ==
    IF i > Len(m) THEN 0
    ELSE IF m[i].k = k THEN i
    ELSE IndexOf(m, k, i + 1)

HasKey(m, k) == IndexOf(m, k, 1) # 0

Lookup(m, k) == m[IndexOf(m, k, 1)].v

\* Mutant: m.setdefault(k, v) -- an existing key keeps the value it has.
DictPut_FirstWins(m, k, v) ==
    LET i == IndexOf(m, k, 1)
    IN IF i = 0 THEN Append(m, [k |-> k, v |-> v])
       ELSE m

\* m[k] = v on an insertion-ordered dict: an existing key keeps its position
\* and takes the new value, a new key goes last.
DictPut(m, k, v) ==
    LET i == IndexOf(m, k, 1)
    IN IF i = 0 THEN Append(m, [k |-> k, v |-> v])
       ELSE [m EXCEPT ![i] = [k |-> k, v |-> v]]

\* seen[k].append(v) on a defaultdict(list).
DefaultDictAppend(m, k, v) ==
    LET i == IndexOf(m, k, 1)
    IN IF i = 0 THEN Append(m, [k |-> k, v |-> <<v>>])
       ELSE [m EXCEPT ![i] = [k |-> k, v |-> Append(m[i].v, v)]]

\* ------------------------------------------------------------ input files
\* A catalog path of the command line and what lies behind it:
\*   st = "notgiven"   the option was not passed (args.<path> is None)
\*        "missing"    a path was passed and no file exists there
\*        "unparsable" the file exists and the parser raises on it
\*        "ok"         the file parses to the value (t, doc):
\*                       t = "None"  an empty document (YAML) / null (JSON)
\*                           "dict"  the mapping doc
\*                           "list"  a non-empty value that is not a mapping
NotGiven   == [st |-> "notgiven",   t |-> "None", doc |-> << >>]
Missing    == [st |-> "missing",    t |-> "None", doc |-> << >>]
Unparsable == [st |-> "unparsable", t |-> "None", doc |-> << >>]
EmptyFile  == [st |-> "ok",         t |-> "None", doc |-> << >>]
ListFile   == [st |-> "ok",         t |-> "list", doc |-> << >>]
MappingFile(d) == [st |-> "ok", t |-> "dict", doc |-> d]

\* A loaded catalog: Python's None, a dict, or a non-mapping value.
PyNone == [t |-> "None", doc |-> << >>]
PyDict(d) == [t |-> "dict", doc |-> d]

\* ------------------------------------------------- validate-conflicts.py
\* load_kafka_catalog: None for no path, a missing file and a file that fails
\* to parse (the exception is caught and printed); otherwise
\* yaml.safe_load(f) or {}.
load_kafka_catalog(f) ==
    IF f.st \in {"notgiven", "missing"} THEN PyNone
    ELSE IF f.st = "unparsable" THEN PyNone
    ELSE IF f.t = "None" THEN PyDict(<< >>)
    ELSE [t |-> f.t, doc |-> f.doc]

\* load_schemas_catalog: as above, and json.load(f) as it is.
load_schemas_catalog(f) ==
    IF f.st \in {"notgiven", "missing"} THEN PyNone
    ELSE IF f.st = "unparsable" THEN PyNone
    ELSE [t |-> f.t, doc |-> f.doc]

\* What a load prints: the caught parse error.
LoadOutput(f) == IF f.st = "unparsable" THEN <<"Error loading">> ELSE << >>

\* `if catalog:` -- None and the empty dict are false.
Truthy(c) == c.t = "list" \/ (c.t = "dict" /\ DOMAIN c.doc # {})

\* catalog.get(...) on a value that is no mapping raises AttributeError, which
\* nothing catches.
Raises(c) == Truthy(c) /\ c.t # "dict"

\* The loops that reduce a list of entries to a dict identity -> domain:
\*     for e in entries: owners[e.get(keyField)] = e.get(domField, "unknown")
RECURSIVE OwnersFrom(_, _, _, _, _)
OwnersFrom(entries, keyField, domField, i, acc) ==
    IF i > Len(entries) THEN acc
    ELSE OwnersFrom(entries, keyField, domField, i + 1,
                    DictPut(acc, Get(entries[i], keyField, None),
                                 Get(entries[i], domField, "unknown")))

topics_of(catalog) ==
    IF Truthy(catalog)
    THEN OwnersFrom(Get(catalog.doc, "topics", << >>), "name", "_domain", 1, << >>)
    ELSE << >>

accounts_of(catalog) ==
    IF Truthy(catalog)
    THEN OwnersFrom(Get(catalog.doc, "access_config", << >>), "name", "_domain", 1, << >>)
    ELSE << >>

subjects_of(catalog) ==
    IF Truthy(catalog)
    THEN OwnersFrom(Get(catalog.doc, "schemas", << >>), "subject", "domain", 1, << >>)
    ELSE << >>

\* seen = defaultdict(list); for name, domain in owners.items():
\*     seen[name].append(domain)
RECURSIVE SeenFrom(_, _, _)
SeenFrom(owners, i, acc) ==
    IF i > Len(owners) THEN acc
    ELSE SeenFrom(owners, i + 1, DefaultDictAppend(acc, owners[i].k, owners[i].v))

\* A conflict message, by its parts.  reason "multiple" is
\*   "<kind> '<id>' defined in multiple domains: <', '.join(set(domains))>"
\* and reason "exists" is
\*   "<kind> '<id>' already exists in domain '<deployed>' (you are deploying
\*    in domain '<branch>')".
MultipleConflict(kind, id, domains) ==
    [kind |-> kind, reason |-> "multiple", id |-> id,
     domains |-> Range(domains), deployed |-> "", branch |-> ""]

\* Mutant: the two domains change places in the message.
ExistsConflict_Swapped(kind, id, deployed_domain, branch_domain) ==
    [kind |-> kind, reason |-> "exists", id |-> id,
     domains |-> {}, deployed |-> branch_domain, branch |-> deployed_domain]

ExistsConflict(kind, id, deployed_domain, branch_domain) ==
    [kind |-> kind, reason |-> "exists", id |-> id,
     domains |-> {}, deployed |-> deployed_domain, branch |-> branch_domain]

\* for name, domains in seen.items(): if len(domains) > 1: conflicts.append(...)
RECURSIVE DuplicateConflicts(_, _, _)
DuplicateConflicts(kind, seen, i) ==
    IF i > Len(seen) THEN << >>
    ELSE (IF Len(seen[i].v) > 1
          THEN <<MultipleConflict(kind, seen[i].k, seen[i].v)>>
          ELSE << >>)
         \o DuplicateConflicts(kind, seen, i + 1)

\* Mutant: every identity found in both catalogs is a collision, its owners
\* are not compared.
RECURSIVE CollisionConflicts_NoOwnerCompare(_, _, _, _)
CollisionConflicts_NoOwnerCompare(kind, branch, deployed, i) ==
    IF i > Len(branch) THEN << >>
    ELSE (IF HasKey(deployed, branch[i].k)
          THEN <<ExistsConflict(kind, branch[i].k,
                                Lookup(deployed, branch[i].k), branch[i].v)>>
          ELSE << >>)
         \o CollisionConflicts_NoOwnerCompare(kind, branch, deployed, i + 1)

\* Mutant: the deployed owner is read with deployed.get(name, "unknown"), with
\* no test that the identity is deployed at all.
RECURSIVE CollisionConflicts_DefaultOwner(_, _, _, _)
CollisionConflicts_DefaultOwner(kind, branch, deployed, i) ==
    IF i > Len(branch) THEN << >>
    ELSE LET deployed_domain ==
                 IF HasKey(deployed, branch[i].k)
                 THEN Lookup(deployed, branch[i].k) ELSE "unknown"
         IN (IF branch[i].v # deployed_domain
             THEN <<ExistsConflict(kind, branch[i].k, deployed_domain, branch[i].v)>>
             ELSE << >>)
            \o CollisionConflicts_DefaultOwner(kind, branch, deployed, i + 1)

\* for name in branch: if name in deployed: if branch[name] != deployed[name]:
\*     conflicts.append(...)
RECURSIVE CollisionConflicts(_, _, _, _)
CollisionConflicts(kind, branch, deployed, i) ==
    IF i > Len(branch) THEN << >>
    ELSE (IF HasKey(deployed, branch[i].k)
             /\ branch[i].v # Lookup(deployed, branch[i].k)
          THEN <<ExistsConflict(kind, branch[i].k,
                                Lookup(deployed, branch[i].k), branch[i].v)>>
          ELSE << >>)
         \o CollisionConflicts(kind, branch, deployed, i + 1)

\* The checks of one resource kind: duplicates within the branch, then
\* collisions between branch and deployed.
KindConflicts(kind, branch, deployed) ==
    DuplicateConflicts(kind, SeenFrom(branch, 1, << >>), 1)
    \o CollisionConflicts(kind, branch, deployed, 1)

TopicConflicts(branch_catalog, deployed_catalog) ==
    KindConflicts("Topic", topics_of(branch_catalog), topics_of(deployed_catalog))

AccountConflicts(branch_catalog, deployed_catalog) ==
    KindConflicts("Service account",
                  accounts_of(branch_catalog), accounts_of(deployed_catalog))

SubjectConflicts(branch_catalog, deployed_catalog) ==
    KindConflicts("Schema subject",
                  subjects_of(branch_catalog), subjects_of(deployed_catalog))

\* Mutant: the service accounts are checked before the topics.
validate_kafka_conflicts_AccountsFirst(branch_catalog, deployed_catalog) ==
    LET conflicts == AccountConflicts(branch_catalog, deployed_catalog)
                     \o TopicConflicts(branch_catalog, deployed_catalog)
    IN [is_valid |-> Len(conflicts) = 0, conflicts |-> conflicts]

\* validate_kafka_conflicts: (is_valid, conflicts), topics first and service
\* accounts after them.
validate_kafka_conflicts(branch_catalog, deployed_catalog) ==
    LET conflicts == TopicConflicts(branch_catalog, deployed_catalog)
                     \o AccountConflicts(branch_catalog, deployed_catalog)
    IN [is_valid |-> Len(conflicts) = 0, conflicts |-> conflicts]

\* validate_schemas_conflicts: (is_valid, conflicts).
validate_schemas_conflicts(branch_catalog, deployed_catalog) ==
    LET conflicts == SubjectConflicts(branch_catalog, deployed_catalog)
    IN [is_valid |-> Len(conflicts) = 0, conflicts |-> conflicts]

\* ------------------------------------------------------------------ state
VARIABLES
    args,           \* main: the four catalog paths of the command line
    pc,             \* main: "kafka", "schemas", "report", "done", "crashed"
    all_valid,      \* main: all_valid
    all_conflicts,  \* main: all_conflicts
    stdout,         \* main: the verdict lines printed so far
    reported,       \* main: the numbered conflicts printed by the report
    exit_status,    \* main: the process exit status (-1 while running)
    domains_dir,    \* aggregator: whether domains/ exists
    tree,           \* aggregator: domain -> its kafka-request.yaml for the environment
    catalog_file,   \* aggregator: <output-dir>/<env>/kafka-catalog.yaml on disk
    apc,            \* aggregator: "start", "loop", "write", "done", "aborted"
    kafka_files,    \* aggregator: sorted(kafka_files), by the domains of the files
    idx,            \* aggregator: position of the for loop in kafka_files
    aggregated,     \* aggregator: aggregated
    processing,     \* aggregator: the "Processing domain: ..." lines printed
    agg_exit,       \* aggregator: the process exit status (-1 while running)
    prior_catalog   \* aggregator: catalog_file as it was when the run started

vvars == <<args, pc, all_valid, all_conflicts, stdout, reported, exit_status>>

avars == <<domains_dir, tree, catalog_file, apc, kafka_files, idx, aggregated,
           processing, agg_exit, prior_catalog>>

vars == <<vvars, avars>>

\* ----------------------------------------------------- validator inputs
Kinds == {"topics", "access_config", "schemas"}

Ids == {"orders.created", "payments.settled"}

Domains == {"orders", "billing"}

\* A catalog entry of one kind: the aggregators tag kafka entries with
\* "_domain" and schema entries with "domain".
Entry(kind, id, dom) ==
    IF kind = "schemas" THEN [subject |-> id, domain |-> dom]
    ELSE [name |-> id, _domain |-> dom]

\* An entry that carries no owner tag.
Untagged(kind, id) ==
    IF kind = "schemas" THEN [subject |-> id] ELSE [name |-> id]

\* The entries the lists of the kind under scrutiny are drawn from.
DeepEntries(kind) ==
    {Entry(kind, "orders.created", "orders"),
     Entry(kind, "orders.created", "billing"),
     Entry(kind, "payments.settled", "orders"),
     Untagged(kind, "orders.created")}

\* The other kinds either hold nothing or hold one ownership change.
OtherBranch(kind, clash) ==
    IF clash THEN <<Entry(kind, "orders.created", "orders")>> ELSE << >>

OtherDeployed(kind, clash) ==
    IF clash THEN <<Entry(kind, "orders.created", "billing")>> ELSE << >>

KafkaDoc(topics, access_config) ==
    [topics |-> topics, access_config |-> access_config]

SchemasDoc(schemas) == [schemas |-> schemas]

\* The four files when kind k holds the lists b (branch) and d (deployed) and
\* the other kinds are as `clash` says.
BranchKafkaFile(k, b, clash) ==
    MappingFile(KafkaDoc(
        IF k = "topics" THEN b ELSE OtherBranch("topics", clash["topics"]),
        IF k = "access_config" THEN b
        ELSE OtherBranch("access_config", clash["access_config"])))

DeployedKafkaFile(k, d, clash) ==
    MappingFile(KafkaDoc(
        IF k = "topics" THEN d ELSE OtherDeployed("topics", clash["topics"]),
        IF k = "access_config" THEN d
        ELSE OtherDeployed("access_config", clash["access_config"])))

BranchSchemasFile(k, b, clash) ==
    MappingFile(SchemasDoc(
        IF k = "schemas" THEN b ELSE OtherBranch("schemas", clash["schemas"])))

DeployedSchemasFile(k, d, clash) ==
    MappingFile(SchemasDoc(
        IF k = "schemas" THEN d ELSE OtherDeployed("schemas", clash["schemas"])))

\* What may lie behind a path when the files themselves are under scrutiny.
KafkaFiles(topic, account) ==
    {NotGiven, Missing, Unparsable, EmptyFile, ListFile, MappingFile(<< >>),
     MappingFile(KafkaDoc(<<topic>>, <<account>>))}

SchemasFiles(schema) ==
    {NotGiven, Missing, Unparsable, EmptyFile, ListFile, MappingFile(<< >>),
     MappingFile(SchemasDoc(<<schema>>))}

InitMain ==
    /\ pc = "kafka"
    /\ all_valid = TRUE
    /\ all_conflicts = << >>
    /\ stdout = << >>
    /\ reported = << >>
    /\ exit_status = -1

\* Both catalogs present: one kind with arbitrary lists.
InitPairs ==
    \E k \in Kinds : \E b, d \in Lists(DeepEntries(k), MaxLen) :
    \E clash \in [Kinds -> BOOLEAN] :
        /\ clash[k] = FALSE
        /\ args = [branch_kafka      |-> BranchKafkaFile(k, b, clash),
                   deployed_kafka    |-> DeployedKafkaFile(k, d, clash),
                   branch_schemas    |-> BranchSchemasFile(k, b, clash),
                   deployed_schemas  |-> DeployedSchemasFile(k, d, clash)]

\* No deployed catalog: the path is not given, or names no file.
InitBranchOnly ==
    \E k \in Kinds : \E b \in Lists(DeepEntries(k), MaxLen) :
    \E clash \in [Kinds -> BOOLEAN] : \E dk, ds \in {NotGiven, Missing} :
        /\ clash[k] = FALSE
        /\ args = [branch_kafka      |-> BranchKafkaFile(k, b, clash),
                   deployed_kafka    |-> dk,
                   branch_schemas    |-> BranchSchemasFile(k, b, clash),
                   deployed_schemas  |-> ds]

\* Every kind of file behind every path, with one-entry catalogs.
InitFiles ==
    \E bk \in KafkaFiles(Entry("topics", "orders.created", "orders"),
                         Entry("access_config", "orders.created", "orders")) :
    \E dk \in KafkaFiles(Entry("topics", "orders.created", "billing"),
                         Entry("access_config", "orders.created", "billing")) :
    \E bs \in SchemasFiles(Entry("schemas", "orders.created", "orders")) :
    \E ds \in SchemasFiles(Entry("schemas", "orders.created", "billing")) :
        args = [branch_kafka |-> bk, deployed_kafka |-> dk,
                branch_schemas |-> bs, deployed_schemas |-> ds]

\* The aggregator is not running.
AggIdle ==
    /\ domains_dir = TRUE
    /\ tree = << >>
    /\ catalog_file = [exists |-> FALSE, data |-> << >>]
    /\ apc = "idle"
    /\ kafka_files = << >>
    /\ idx = 0
    /\ aggregated = << >>
    /\ processing = << >>
    /\ agg_exit = -1
    /\ prior_catalog = [exists |-> FALSE, data |-> << >>]

Init == InitMain /\ (InitPairs \/ InitBranchOnly \/ InitFiles) /\ AggIdle

\* ------------------------------------------------------------------ main
\* main, "Validate Kafka catalogs": skipped without --branch-kafka; the
\* deployed catalog is loaded only when its path is given.
ValidateKafka ==
    /\ pc = "kafka"
    /\ IF args.branch_kafka.st = "notgiven"
       THEN /\ pc' = "schemas"
            /\ UNCHANGED <<all_valid, all_conflicts, stdout, exit_status>>
       ELSE LET branch_kafka == load_kafka_catalog(args.branch_kafka)
                deployed_kafka ==
                    IF args.deployed_kafka.st # "notgiven"
                    THEN load_kafka_catalog(args.deployed_kafka) ELSE PyNone
                loaded == LoadOutput(args.branch_kafka)
                          \o LoadOutput(args.deployed_kafka)
                result == validate_kafka_conflicts(branch_kafka, deployed_kafka)
            IN IF Raises(branch_kafka) \/ Raises(deployed_kafka)
               THEN /\ pc' = "crashed"
                    /\ exit_status' = 1
                    /\ stdout' = stdout \o loaded \o <<"Traceback">>
                    /\ UNCHANGED <<all_valid, all_conflicts>>
               ELSE /\ pc' = "schemas"
                    /\ all_valid' = (all_valid /\ result.is_valid)
                    /\ all_conflicts' = all_conflicts \o result.conflicts
                    /\ stdout' = stdout \o loaded \o
                         <<IF result.is_valid
                           THEN "Kafka catalog validation passed"
                           ELSE "Kafka catalog validation FAILED">>
                    /\ UNCHANGED exit_status
    /\ UNCHANGED <<args, reported>>
    /\ UNCHANGED avars

\* Mutant: the schemas catalogs are checked only while nothing is in
\* conflict yet.
ValidateSchemas_StopAtFirst ==
    /\ pc = "schemas"
    /\ pc' = "report"
    /\ IF args.branch_schemas.st = "notgiven" \/ ~all_valid
       THEN UNCHANGED <<all_valid, all_conflicts, stdout>>
       ELSE LET result == validate_schemas_conflicts(
                              load_schemas_catalog(args.branch_schemas),
                              load_schemas_catalog(args.deployed_schemas))
            IN /\ all_valid' = (all_valid /\ result.is_valid)
               /\ all_conflicts' = all_conflicts \o result.conflicts
               /\ stdout' = stdout
    /\ UNCHANGED <<args, reported, exit_status>>
    /\ UNCHANGED avars

\* main, "Validate Schemas catalogs".
ValidateSchemas ==
    /\ pc = "schemas"
    /\ IF args.branch_schemas.st = "notgiven"
       THEN /\ pc' = "report"
            /\ UNCHANGED <<all_valid, all_conflicts, stdout, exit_status>>
       ELSE LET branch_schemas == load_schemas_catalog(args.branch_schemas)
                deployed_schemas ==
                    IF args.deployed_schemas.st # "notgiven"
                    THEN load_schemas_catalog(args.deployed_schemas) ELSE PyNone
                loaded == LoadOutput(args.branch_schemas)
                          \o LoadOutput(args.deployed_schemas)
                result == validate_schemas_conflicts(branch_schemas, deployed_schemas)
            IN IF Raises(branch_schemas) \/ Raises(deployed_schemas)
               THEN /\ pc' = "crashed"
                    /\ exit_status' = 1
                    /\ stdout' = stdout \o loaded \o <<"Traceback">>
                    /\ UNCHANGED <<all_valid, all_conflicts>>
               ELSE /\ pc' = "report"
                    /\ all_valid' = (all_valid /\ result.is_valid)
                    /\ all_conflicts' = all_conflicts \o result.conflicts
                    /\ stdout' = stdout \o loaded \o
                         <<IF result.is_valid
                           THEN "Schemas catalog validation passed"
                           ELSE "Schemas catalog validation FAILED">>
                    /\ UNCHANGED exit_status
    /\ UNCHANGED <<args, reported>>
    /\ UNCHANGED avars

\* main, "Report all conflicts": the numbered list and exit 1, or the overall
\* pass line and exit 0.
Report ==
    /\ pc = "report"
    /\ pc' = "done"
    /\ IF all_conflicts # << >>
       THEN /\ stdout' = Append(stdout, "VALIDATION FAILED - Conflicts detected")
            /\ reported' = all_conflicts
            /\ exit_status' = 1
       ELSE /\ stdout' = Append(stdout, "All validations passed")
            /\ reported' = reported
            /\ exit_status' = 0
    /\ UNCHANGED <<args, all_valid, all_conflicts>>
    /\ UNCHANGED avars

Next == ValidateKafka \/ ValidateSchemas \/ Report

Spec == Init /\ [][Next]_vars

\* ------------------------------------------- vocabulary of the claims
\* The conflict label, the list key and the entry keys of each kind.
Label(kind) ==
    IF kind = "topics" THEN "Topic"
    ELSE IF kind = "access_config" THEN "Service account"
    ELSE "Schema subject"

BranchFile(kind) ==
    IF kind = "schemas" THEN args.branch_schemas ELSE args.branch_kafka

DeployedFile(kind) ==
    IF kind = "schemas" THEN args.deployed_schemas ELSE args.deployed_kafka

\* The entries of one kind a catalog file holds (none unless it is a mapping).
FileEntries(file, kind) ==
    IF file.st = "ok" /\ file.t = "dict" THEN Get(file.doc, kind, << >>) ELSE << >>

IdOf(kind, e) == Get(e, IF kind = "schemas" THEN "subject" ELSE "name", None)

OwnerOf(kind, e) == Get(e, IF kind = "schemas" THEN "domain" ELSE "_domain", "unknown")

\* The domains under which a catalog file declares identity id.
DomainsOf(file, kind, id) ==
    {OwnerOf(kind, e) : e \in {x \in Range(FileEntries(file, kind)) : IdOf(kind, x) = id}}

\* The positions of the conflicts of one kind, reason and identity.
ConflictsAbout(kind, reason, id) ==
    {i \in DOMAIN all_conflicts :
        /\ all_conflicts[i].kind = Label(kind)
        /\ all_conflicts[i].reason = reason
        /\ all_conflicts[i].id = id}

Unsupplied(file) == file.st \in {"notgiven", "missing"}

\* The file parses to something a catalog can be: a mapping or nothing.
CatalogShaped(file) == ~(file.st = "ok" /\ file.t = "list")

\* ------------------------------------------------------------ C1
\* C1 (as claimed): when validation has finished, a "defined in multiple
\* domains" conflict is reported for identity X of a kind if and only if the
\* branch catalog's entries for X carry more than one distinct domain, and
\* then there is exactly one, naming all of them, with exit status 1.
\* (Stated for identities all of whose branch entries carry an owner tag.)
C1_DuplicateIffMultipleDomains ==
    pc = "done" =>
        \A kind \in Kinds : \A id \in Ids :
            LET owners == DomainsOf(BranchFile(kind), kind, id)
                found == ConflictsAbout(kind, "multiple", id)
            IN owners \subseteq Domains =>
                /\ (found # {}) <=> (Cardinality(owners) > 1)
                /\ Cardinality(owners) > 1 =>
                     /\ Cardinality(found) = 1
                     /\ \A i \in found : all_conflicts[i].domains = owners
                     /\ exit_status = 1

C3_SelfUpdateAnyOtherEntries ==
    pc = "done" =>
        \A kind \in Kinds : \A id \in Ids : \A D \in Domains :
            (/\ D \in DomainsOf(BranchFile(kind), kind, id)
             /\ D \in DomainsOf(DeployedFile(kind), kind, id)
             /\ DomainsOf(BranchFile(kind), kind, id) \subseteq Domains
             /\ DomainsOf(DeployedFile(kind), kind, id) \subseteq Domains)
            => /\ ConflictsAbout(kind, "multiple", id) = {}
               /\ ConflictsAbout(kind, "exists", id) = {}

\* C3 (amended): when domain D has an entry for X in both catalogs and no
\* other domain has an entry for X in either, no reported conflict mentions
\* X, whatever entries the catalogs hold for other identities.
C3_SelfUpdateSoleOwner ==
    pc = "done" =>
        \A kind \in Kinds : \A id \in Ids : \A D \in Domains :
            (/\ DomainsOf(BranchFile(kind), kind, id) = {D}
             /\ DomainsOf(DeployedFile(kind), kind, id) = {D})
            => /\ ConflictsAbout(kind, "multiple", id) = {}
               /\ ConflictsAbout(kind, "exists", id) = {}

\* A finished validation in which "payments.settled" is a self-update of its
\* sole owner while another identity of the same catalogs is in conflict.
C3_Witness ==
    /\ pc = "done"
    /\ \E kind \in Kinds :
        /\ DomainsOf(BranchFile(kind), kind, "payments.settled") = {"orders"}
        /\ DomainsOf(DeployedFile(kind), kind, "payments.settled") = {"orders"}
        /\ ConflictsAbout(kind, "exists", "orders.created") # {}

\* ------------------------------------------------------------ C4
\* A catalog file the run has read and that failed to parse.
ReadUnparsable ==
    \/ /\ pc # "kafka"
       /\ \/ args.branch_kafka.st = "unparsable"
          \/ /\ args.branch_kafka.st # "notgiven"
             /\ args.deployed_kafka.st = "unparsable"
    \/ /\ pc \in {"report", "done"}
       /\ \/ args.branch_schemas.st = "unparsable"
          \/ /\ args.branch_schemas.st # "notgiven"
             /\ args.deployed_schemas.st = "unparsable"

PassedLines ==
    {"Kafka catalog validation passed", "Schemas catalog validation passed",
     "All validations passed"}

\* C4 (as claimed): a run that has read a catalog file which exists but does
\* not parse never prints a "validation passed" verdict and ends with a
\* non-zero exit status.
C4_UnparsableCatalogIsFatal ==
    ReadUnparsable =>
        /\ Range(stdout) \cap PassedLines = {}
        /\ pc \in {"done", "crashed"} => exit_status # 0

\* ------------------------------------------------------------ C6
Ordered(list, rank(_)) ==
    \A i, j \in DOMAIN list : i < j => rank(list[i].kind) <= rank(list[j].kind)

SpecRank(label) ==
    IF label = "Topic" THEN 1 ELSE IF label = "Schema subject" THEN 2 ELSE 3

CodeRank(label) ==
    IF label = "Topic" THEN 1 ELSE IF label = "Service account" THEN 2 ELSE 3

\* C6 (as claimed): in the reported conflict list every topic conflict
\* precedes every schema-subject conflict, and every schema-subject conflict
\* precedes every service-account conflict.
C6_TopicsSchemasAccounts ==
    Ordered(all_conflicts, SpecRank) /\ Ordered(reported, SpecRank)

\* C6 (amended): in the reported conflict list every topic conflict precedes
\* every service-account conflict, and every service-account conflict
\* precedes every schema-subject conflict.
C6_TopicsAccountsSchemas ==
    Ordered(all_conflicts, CodeRank) /\ Ordered(reported, CodeRank)

\* A finished run that reported conflicts of all three kinds.
C6_Witness ==
    /\ pc = "done"
    /\ {reported[i].kind : i \in DOMAIN reported}
         = {"Topic", "Service account", "Schema subject"}

\* ------------------------------------------------------------ C7
\* The conflicts of the kafka catalogs and of the schemas catalogs, each
\* checked exactly when its branch path is given.
KafkaPart ==
    IF args.branch_kafka.st = "notgiven" THEN << >>
    ELSE TopicConflicts(load_kafka_catalog(args.branch_kafka),
                        load_kafka_catalog(args.deployed_kafka))
         \o AccountConflicts(load_kafka_catalog(args.branch_kafka),
                             load_kafka_catalog(args.deployed_kafka))

SchemasPart ==
    IF args.branch_schemas.st = "notgiven" THEN << >>
    ELSE SubjectConflicts(load_schemas_catalog(args.branch_schemas),
                          load_schemas_catalog(args.deployed_schemas))

\* An ownership change between sole owners: deployed {A}, branch {B}, A # B.
SoleOwnerChange(kind, id) ==
    \E A, B \in Domains :
        /\ A # B
        /\ DomainsOf(DeployedFile(kind), kind, id) = {A}
        /\ DomainsOf(BranchFile(kind), kind, id) = {B}

\* C7: a finished run has checked every kind whose branch path is given,
\* whatever the earlier kinds found: its list is the concatenation of the
\* conflicts of all of them (so every sole-owner ownership change of every
\* kind is in it), the report prints that list, and the exit status is 0 if
\* and only if the list is empty, 1 otherwise.
C7_ExhaustiveVerdict ==
    pc = "done" =>
        /\ all_conflicts = KafkaPart \o SchemasPart
        /\ \A kind \in Kinds : \A id \in Ids :
              SoleOwnerChange(kind, id) => ConflictsAbout(kind, "exists", id) # {}
        /\ reported = all_conflicts
        /\ all_valid <=> (all_conflicts = << >>)
        /\ exit_status = (IF all_conflicts = << >> THEN 0 ELSE 1)

\* A finished run whose list holds a topic conflict, a service-account
\* conflict and, found after them, a schema-subject conflict.
C7_Witness ==
    /\ pc = "done"
    /\ exit_status = 1
    /\ \E i, j, k \in DOMAIN all_conflicts :
        /\ all_conflicts[i].kind = "Topic"
        /\ all_conflicts[j].kind = "Service account"
        /\ all_conflicts[k].kind = "Schema subject"

\* ------------------------------------------------------------ C8
ConflictsOfKind(kind) ==
    {i \in DOMAIN all_conflicts : all_conflicts[i].kind = Label(kind)}

PhaseOver(kind) ==
    IF kind = "schemas" THEN pc \in {"report", "done"} ELSE pc # "kafka"

PhasePassedLine(kind) ==
    IF kind = "schemas" THEN "Schemas catalog validation passed"
    ELSE "Kafka catalog validation passed"

\* C8: with no deployed catalog supplied (path not given, or naming no file)
\* no conflict of that kind is an "already exists in domain" conflict, and
\* the run raises no error on any branch catalog; a branch path that names
\* no file gives no conflict of its kinds and a passing verdict for its
\* catalog, and a run all of whose branch paths are such ends with status 0.
\* (Files that parse are taken to parse to a mapping or to nothing.)
C8_AbsenceTolerance ==
    /\ \A kind \in Kinds :
          Unsupplied(DeployedFile(kind)) =>
              \A i \in ConflictsOfKind(kind) : all_conflicts[i].reason # "exists"
    /\ (\A kind \in Kinds : /\ Unsupplied(DeployedFile(kind))
                            /\ CatalogShaped(BranchFile(kind)))
          => pc # "crashed"
    /\ \A kind \in Kinds :
          (/\ BranchFile(kind).st = "missing"
           /\ CatalogShaped(DeployedFile(kind))
           /\ PhaseOver(kind))
          => /\ ConflictsOfKind(kind) = {}
             /\ PhasePassedLine(kind) \in Range(stdout)
    /\ (\A kind \in Kinds : /\ BranchFile(kind).st = "missing"
                            /\ CatalogShaped(DeployedFile(kind)))
          => /\ pc # "crashed"
             /\ pc = "done" => exit_status = 0

\* A finished run with a branch kafka catalog that declares entries and no
\* deployed kafka catalog, and with a deployed schemas catalog that declares
\* entries beside a branch schemas path that names no file.
C8_Witness ==
    /\ pc = "done"
    /\ FileEntries(args.branch_kafka, "topics") # << >>
    /\ Unsupplied(args.deployed_kafka)
    /\ args.branch_schemas.st = "missing"
    /\ FileEntries(args.deployed_schemas, "schemas") # << >>

\* ------------------------------------------------------ aggregate-kafka.py
\* The domains, in the order sorted() gives their kafka-request.yaml paths
\* (domains/billing/..., domains/orders/..., domains/payments/...).
DomainOrder == <<"billing", "orders", "payments">>

DomainNames == Range(DomainOrder)

\* A list element that is no mapping (a scalar in the YAML list).
NotAMapping == [scalar |-> "x"]

IsMapping(e) == "scalar" \notin DOMAIN e

ResourceKeys == {"topics", "schemas", "access_config"}

\* A declaration file the aggregation cannot get through: it does not parse,
\* it parses to something that is no mapping, or one of its lists holds an
\* element that is no mapping.
Malformed(file) ==
    \/ file.st = "unparsable"
    \/ file.st = "ok" /\ file.t = "list"
    \/ \E key \in ResourceKeys :
          \E e \in Range(FileEntries(file, key)) : ~IsMapping(e)

\* The domain has no kafka-request.yaml for the environment.
NoFile == Missing

HasFile(t, d) == t[d].st # "missing"

\* Mutant: {"_domain": domain_name, **entry} -- a "_domain" the entry brought
\* along wins over the domain of the file.
WithDomain_DeclaredTagWins(entry, domain_name) ==
    [k \in DOMAIN entry \cup {"_domain"} |->
        IF k \in DOMAIN entry THEN entry[k] ELSE domain_name]

\* {**entry, "_domain": domain_name}: a copy with the owner tag set, over any
\* "_domain" the entry brought along.
WithDomain(entry, domain_name) ==
    [k \in DOMAIN entry \cup {"_domain"} |->
        IF k = "_domain" THEN domain_name ELSE entry[k]]

\* for entry in entries: acc.append({**entry, "_domain": domain_name}); the
\* unpacking of an element that is no mapping raises TypeError and the
\* entries copied before it stay in the list.
RECURSIVE CopyEntries(_, _, _, _)
CopyEntries(acc, entries, domain_name, i) ==
    IF i > Len(entries) THEN [ok |-> TRUE, out |-> acc]
    ELSE IF ~IsMapping(entries[i]) THEN [ok |-> FALSE, out |-> acc]
    ELSE CopyEntries(Append(acc, WithDomain(entries[i], domain_name)),
                     entries, domain_name, i + 1)

\* The empty catalog structure.
EmptyCatalog ==
    [topics |-> << >>, schemas |-> << >>, access_config |-> << >>, domains |-> << >>]

\* sorted(kafka_files), by domain: the domains that have a file, in order.
SortedFiles(t) == SelectSeq(DomainOrder, LAMBDA d : HasFile(t, d))

\* Mutant: a file that cannot be processed is skipped and the loop goes on.
ProcessDomain_ContinueOnError(agg, domain_name, file) ==
    IF Malformed(file) THEN [ok |-> TRUE, agg |-> agg]
    ELSE
      LET data == IF file.t = "None" THEN << >> ELSE file.doc
          tracked == [agg EXCEPT !.domains = Append(@, domain_name)]
      IN [ok |-> TRUE,
          agg |-> [tracked EXCEPT
             !.topics = CopyEntries(@, Get(data, "topics", << >>), domain_name, 1).out,
             !.schemas = CopyEntries(@, Get(data, "schemas", << >>), domain_name, 1).out,
             !.access_config =
                CopyEntries(@, Get(data, "access_config", << >>), domain_name, 1).out]]

\* Mutant: a domain is tracked only when its file declares some resource.
ProcessDomain_SkipEmpty(agg, domain_name, file) ==
    IF Malformed(file) THEN [ok |-> FALSE, agg |-> agg]
    ELSE
      LET data == IF file.t = "None" THEN << >> ELSE file.doc
          declares == \E key \in {"topics", "schemas", "access_config"} :
                          Get(data, key, << >>) # << >>
          tracked == IF declares
                     THEN [agg EXCEPT !.domains = Append(@, domain_name)] ELSE agg
      IN [ok |-> TRUE,
          agg |-> [tracked EXCEPT
             !.topics = CopyEntries(@, Get(data, "topics", << >>), domain_name, 1).out,
             !.schemas = CopyEntries(@, Get(data, "schemas", << >>), domain_name, 1).out,
             !.access_config =
                CopyEntries(@, Get(data, "access_config", << >>), domain_name, 1).out]]

\* The body of the for loop for one file: ok is FALSE when it ends in
\* sys.exit(1), and agg is `aggregated` as the body leaves it.
ProcessDomain(agg, domain_name, file) ==
    IF file.st = "unparsable" THEN [ok |-> FALSE, agg |-> agg]
    ELSE
      LET data == IF file.t = "None" THEN << >> ELSE file.doc
          tracked == [agg EXCEPT !.domains = Append(@, domain_name)]
          topics == CopyEntries(tracked.topics, Get(data, "topics", << >>),
                                domain_name, 1)
          withTopics == [tracked EXCEPT !.topics = topics.out]
          schemas == CopyEntries(tracked.schemas, Get(data, "schemas", << >>),
                                 domain_name, 1)
          withSchemas == [withTopics EXCEPT !.schemas = schemas.out]
          access == CopyEntries(tracked.access_config,
                                Get(data, "access_config", << >>), domain_name, 1)
          withAccess == [withSchemas EXCEPT !.access_config = access.out]
      IN IF file.t = "list" THEN [ok |-> FALSE, agg |-> tracked]
         ELSE IF ~topics.ok THEN [ok |-> FALSE, agg |-> withTopics]
         ELSE IF ~schemas.ok THEN [ok |-> FALSE, agg |-> withSchemas]
         ELSE [ok |-> access.ok, agg |-> withAccess]

\* ------------------------------------------------------ aggregator inputs
TopicDecls ==
    {[name |-> "orders.created", partitions |-> 3],
     [name |-> "orders.created", partitions |-> 6, _domain |-> "spoofed"],
     NotAMapping}

SchemaDecl == [subject |-> "orders.created-value", schema_file |-> "schemas/order.avsc"]

AccessDecl == [name |-> "orders-svc", role |-> "DeveloperRead"]

\* One domain's declaration: any topics, and either no or one schema and
\* access entry.
DeclDocs ==
    {[topics |-> t, schemas |-> << >>, access_config |-> << >>] :
        t \in Lists(TopicDecls, MaxDecl)}
    \cup
    {[topics |-> t, schemas |-> <<SchemaDecl>>, access_config |-> <<AccessDecl>>] :
        t \in Lists(TopicDecls, MaxDecl)}
    \cup
    {[topics |-> << >>, schemas |-> <<NotAMapping>>, access_config |-> <<AccessDecl>>],
     [topics |-> << >>, schemas |-> <<SchemaDecl>>, access_config |-> <<NotAMapping>>]}

DeclFiles ==
    {NoFile, Unparsable, EmptyFile, ListFile, MappingFile(<< >>)}
    \cup {MappingFile(d) : d \in DeclDocs}

\* What an earlier run may have left at the catalog path.
NoCatalog == [exists |-> FALSE, data |-> << >>]

StaleCatalog ==
    [exists |-> TRUE,
     data |-> [topics |-> <<[name |-> "legacy.topic", _domain |-> "legacy"]>>,
               schemas |-> << >>, access_config |-> << >>,
               domains |-> <<"legacy">>]]

\* The validator is not running.
MainIdle ==
    /\ args = [branch_kafka |-> NotGiven, deployed_kafka |-> NotGiven,
               branch_schemas |-> NotGiven, deployed_schemas |-> NotGiven]
    /\ pc = "idle"
    /\ all_valid = TRUE
    /\ all_conflicts = << >>
    /\ stdout = << >>
    /\ reported = << >>
    /\ exit_status = -1

InitAgg ==
    /\ MainIdle
    /\ \/ /\ domains_dir = TRUE
          /\ tree \in [DomainNames -> DeclFiles]
       \/ /\ domains_dir = FALSE
          /\ tree = [d \in DomainNames |-> NoFile]
    /\ catalog_file \in {NoCatalog, StaleCatalog}
    /\ apc = "start"
    /\ kafka_files = << >>
    /\ idx = 0
    /\ aggregated = << >>
    /\ processing = << >>
    /\ agg_exit = -1
    /\ prior_catalog = catalog_file

\* ------------------------------------------------ aggregate_kafka_resources
\* Mutant: the run starts from the catalog an earlier run left at the path
\* and appends to it.
AggStart_MergePrior ==
    /\ apc = "start"
    /\ IF ~domains_dir
       THEN /\ apc' = "aborted"
            /\ agg_exit' = 1
            /\ UNCHANGED <<kafka_files, idx, aggregated>>
       ELSE /\ kafka_files' = SortedFiles(tree)
            /\ aggregated' = IF catalog_file.exists THEN catalog_file.data
                              ELSE EmptyCatalog
            /\ idx' = 1
            /\ apc' = IF SortedFiles(tree) = << >> THEN "write" ELSE "loop"
            /\ UNCHANGED agg_exit
    /\ UNCHANGED <<domains_dir, tree, catalog_file, processing, prior_catalog>>
    /\ UNCHANGED vvars

\* The domains/ check, the glob and the empty catalog structure.
AggStart ==
    /\ apc = "start"
    /\ IF ~domains_dir
       THEN /\ apc' = "aborted"
            /\ agg_exit' = 1
            /\ UNCHANGED <<kafka_files, idx, aggregated>>
       ELSE /\ kafka_files' = SortedFiles(tree)
            /\ aggregated' = EmptyCatalog
            /\ idx' = 1
            /\ apc' = IF SortedFiles(tree) = << >> THEN "write" ELSE "loop"
            /\ UNCHANGED agg_exit
    /\ UNCHANGED <<domains_dir, tree, catalog_file, processing, prior_catalog>>
    /\ UNCHANGED vvars

\* One pass of `for kafka_file in sorted(kafka_files)`.
AggDomain ==
    /\ apc = "loop"
    /\ LET domain_name == kafka_files[idx]
           result == ProcessDomain(aggregated, domain_name, tree[domain_name])
       IN /\ processing' = Append(processing, domain_name)
          /\ aggregated' = result.agg
          /\ IF result.ok
             THEN /\ idx' = idx + 1
                  /\ apc' = IF idx = Len(kafka_files) THEN "write" ELSE "loop"
                  /\ UNCHANGED agg_exit
             ELSE /\ apc' = "aborted"
                  /\ agg_exit' = 1
                  /\ UNCHANGED idx
    /\ UNCHANGED <<domains_dir, tree, catalog_file, kafka_files, prior_catalog>>
    /\ UNCHANGED vvars

\* "Write aggregated catalog": the file is opened with 'w' and holds the dump
\* of `aggregated` alone; the function returns and the process ends with 0.
AggWrite ==
    /\ apc = "write"
    /\ catalog_file' = [exists |-> TRUE, data |-> aggregated]
    /\ apc' = "done"
    /\ agg_exit' = 0
    /\ UNCHANGED <<domains_dir, tree, kafka_files, idx, aggregated, processing,
                   prior_catalog>>
    /\ UNCHANGED vvars

NextAgg == AggStart \/ AggDomain \/ AggWrite

SpecAgg == InitAgg /\ [][NextAgg]_vars

\* --------------------------------------------------- runs one after another
\* The declaration files of the trees that successive runs aggregate: no
\* file, a file that does not parse, and files declaring up to MaxDecl topics.
RunFiles ==
    {NoFile, Unparsable}
    \cup {MappingFile([topics |-> t, schemas |-> << >>, access_config |-> << >>]) :
            t \in Lists({[name |-> "orders.created", partitions |-> 3]}, MaxDecl)}

InitRuns ==
    /\ MainIdle
    /\ domains_dir = TRUE
    /\ tree \in [DomainNames -> RunFiles]
    /\ catalog_file \in {NoCatalog, StaleCatalog}
    /\ apc = "start"
    /\ kafka_files = << >>
    /\ idx = 0
    /\ aggregated = << >>
    /\ processing = << >>
    /\ agg_exit = -1
    /\ prior_catalog = catalog_file

\* The script is started again after a run has ended, over a declaration
\* tree that is the same or has been edited; the locals of the new process
\* are fresh and the catalog path holds what the earlier runs left there.
AggRerun ==
    /\ apc \in {"done", "aborted"}
    /\ tree' \in [DomainNames -> RunFiles]
    /\ apc' = "start"
    /\ kafka_files' = << >>
    /\ idx' = 0
    /\ aggregated' = << >>
    /\ processing' = << >>
    /\ agg_exit' = -1
    /\ prior_catalog' = catalog_file
    /\ UNCHANGED <<domains_dir, catalog_file>>
    /\ UNCHANGED vvars

NextRuns == AggStart \/ AggDomain \/ AggWrite \/ AggRerun

SpecRuns == InitRuns /\ [][NextRuns]_vars

\* ------------------------------------------- vocabulary of the claims
\* The domains that have a declaration file for the environment.
DomainsWithFile == {d \in DomainNames : tree[d].st # "missing"}

\* Positions in DomainOrder of the domains with a malformed file.
MalformedAt == {i \in DOMAIN DomainOrder : Malformed(tree[DomainOrder[i]])}

\* The domains with a file up to position n of DomainOrder, in order.
FilesUpTo(n) ==
    SelectSeq(SubSeq(DomainOrder, 1, n), LAMBDA d : d \in DomainsWithFile)

Min(S) == CHOOSE x \in S : \A y \in S : x <= y

Unwritten == catalog_file \in {NoCatalog, StaleCatalog}

AggTerminated == ~ENABLED NextAgg

\* ------------------------------------------------------------ C5
\* C5: when some domain's declaration file is malformed, the catalog file is
\* never written and no domain after the first malformed one is processed;
\* the run ends aborted with exit status 1, having processed exactly the
\* domains with a file up to and including that one, and takes no further
\* step (in particular not the write step).
C5_FailFast ==
    (domains_dir /\ MalformedAt # {} /\ apc # "start") =>
        /\ apc \in {"loop", "aborted"}
        /\ Unwritten
        /\ \E n \in 0..Len(FilesUpTo(Min(MalformedAt))) :
              processing = SubSeq(FilesUpTo(Min(MalformedAt)), 1, n)
        /\ apc = "aborted" =>
              /\ agg_exit = 1
              /\ processing = FilesUpTo(Min(MalformedAt))
              /\ ~ENABLED AggDomain
              /\ ~ENABLED AggWrite
        /\ AggTerminated => apc = "aborted"

\* An aborted run: the first domain was aggregated, the second is malformed,
\* the third has a file and was never processed, and the catalog left by an
\* earlier run is untouched.
C5_Witness ==
    /\ apc = "aborted"
    /\ processing = <<"billing", "orders">>
    /\ "payments" \in DomainsWithFile
    /\ aggregated.topics # << >>
    /\ catalog_file = StaleCatalog

\* ------------------------------------------------------------ C9
RECURSIVE DeclaredBefore(_, _)
\* How many entries under `key` the domains before position i declare.
DeclaredBefore(key, i) ==
    IF i <= 1 THEN 0
    ELSE DeclaredBefore(key, i - 1)
         + Len(FileEntries(tree[DomainOrder[i - 1]], key))

C10_DomainsListed ==
    /\ apc = "done" =>
          /\ catalog_file.exists
          /\ catalog_file.data = aggregated
          /\ Range(catalog_file.data.domains) = DomainsWithFile
          /\ Len(catalog_file.data.domains) = Cardinality(DomainsWithFile)
          /\ DomainsWithFile = {} => catalog_file.data = EmptyCatalog
          /\ agg_exit = 0
    /\ (domains_dir /\ MalformedAt = {}) =>
          /\ apc # "aborted"
          /\ AggTerminated => apc = "done"

\* A written catalog that lists a domain with an empty file and a domain
\* whose file declares nothing, while a third domain has no file.
C10_Witness ==
    /\ apc = "done"
    /\ tree["billing"] = EmptyFile
    /\ tree["orders"] = NoFile
    /\ tree["payments"] = MappingFile(<< >>)
    /\ catalog_file.data.domains = <<"billing", "payments">>
    /\ catalog_file.data.topics = << >>

\* ------------------------------------------------------------ C11
RECURSIVE CatalogFrom(_, _, _)
\* The catalog the declaration tree t alone determines: the empty catalog
\* with the files of t from position i of SortedFiles(t) on aggregated into
\* it, one after the other.
CatalogFrom(t, agg, i) ==
    IF i > Len(SortedFiles(t)) THEN agg
    ELSE CatalogFrom(t,
                     ProcessDomain(agg, SortedFiles(t)[i], t[SortedFiles(t)[i]]).agg,
                     i + 1)

CatalogOf(t) == CatalogFrom(t, EmptyCatalog, 1)

\* C11: after any sequence of runs, when the last run ended successfully the
\* catalog file holds exactly the catalog that the declaration tree of that
\* run alone determines, whatever the file held when the run started (nothing,
\* a foreign catalog, or the catalog a previous run wrote): nothing of the
\* prior content is appended or merged, and a run over an unchanged tree
\* leaves the file's content as the previous run wrote it.
C11_OverwriteIdempotent ==
    apc = "done" =>
        /\ catalog_file = [exists |-> TRUE, data |-> CatalogOf(tree)]
        /\ (prior_catalog.exists /\ prior_catalog.data = CatalogOf(tree)) =>
              catalog_file = prior_catalog

\* A successful run over a tree with one declaring domain, started when the
\* catalog file held what an earlier run of the aggregator had written for
\* a tree with two declaring domains: the file now lists one domain and one
\* topic.
C11_Witness ==
    /\ apc = "done"
    /\ prior_catalog.exists
    /\ prior_catalog.data.domains = <<"billing", "orders">>
    /\ Len(prior_catalog.data.topics) = 2
    /\ catalog_file.data.domains = <<"orders">>
    /\ Len(catalog_file.data.topics) = 1

\* ------------------------------------------------------------ C12
\* The position of the last entry for identity id among a catalog file's
\* entries of a kind (0 when it has none).
LastPosition(file, kind, id) ==
    LET at == {i \in DOMAIN FileEntries(file, kind) :
                  IdOf(kind, FileEntries(file, kind)[i]) = id}
    IN IF at = {} THEN 0 ELSE CHOOSE i \in at : \A j \in at : j <= i

\* The owner the last entry for id carries ("unknown" without an owner tag).
LastOwner(file, kind, id) ==
    OwnerOf(kind, FileEntries(file, kind)[LastPosition(file, kind, id)])

\* C12: when validation has finished, an "already exists in domain" conflict
\* is reported for identity X of a kind if and only if X has an entry in
\* both the branch and the deployed catalog and the owner of X's last branch
\* entry differs from the owner of X's last deployed entry ("unknown" standing
\* for a missing owner tag), whatever the earlier entries for X say; there is
\* then one such conflict, and it names those two owners.
C12_LastEntryWins ==
    pc = "done" =>
        \A kind \in Kinds : \A id \in Ids :
            LET branch == BranchFile(kind)
                deployed == DeployedFile(kind)
                found == ConflictsAbout(kind, "exists", id)
                differ == /\ LastPosition(branch, kind, id) # 0
                          /\ LastPosition(deployed, kind, id) # 0
                          /\ LastOwner(branch, kind, id) # LastOwner(deployed, kind, id)
            IN /\ (found # {}) <=> differ
               /\ Cardinality(found) <= 1
               /\ \A i \in found :
                     /\ all_conflicts[i].branch = LastOwner(branch, kind, id)
                     /\ all_conflicts[i].deployed = LastOwner(deployed, kind, id)

\* A finished validation of a branch catalog whose entries for
\* "orders.created" are owned by orders first and by billing last, against a
\* deployed catalog where orders owns it: the conflict names billing, though
\* the earlier branch entry agrees with the deployed owner.
C12_Witness ==
    /\ pc = "done"
    /\ \E kind \in Kinds :
        /\ FileEntries(BranchFile(kind), kind) =
              <<Entry(kind, "orders.created", "orders"),
                Entry(kind, "orders.created", "billing")>>
        /\ FileEntries(DeployedFile(kind), kind) =
              <<Entry(kind, "orders.created", "orders")>>
        /\ \E i \in ConflictsAbout(kind, "exists", "orders.created") :
              /\ all_conflicts[i].branch = "billing"
              /\ all_conflicts[i].deployed = "orders"

====
